---- MODULE Spec2Model ----
(***************************************************************************)
(* Model of the reminder collection of src/src/RemindersHandler.ts and of  *)
(* the reminder record of src/src/Reminder.ts.                             *)
(*                                                                         *)
(* A call that may throw is modelled by an operator returning a record     *)
(*   [status |-> "return" | "throw", value |-> ..., self |-> ...]          *)
(* where self is the receiver's state when the call ends, whichever way it *)
(* ends.  Each action performs one call and records it in op / args /      *)
(* outcome / ret, so that properties can speak about what the caller saw.  *)
(***************************************************************************)
EXTENDS Integers, Sequences, FiniteSets, TLC

\* Largest collection explored.
MaxReminders == 2

\* Strings the callers pass as description, tag and search keyword.
Descriptions == {"", "buy milk"}
Tags == {"Work", "work", "constructor"}
\* What the callers assign through Reminder's tag setter.
SetterTags == {"", "Work"}
Keywords == {"WORK", "work", "buy"}

\* Integer positions the callers pass: below, inside and above [1, size()].
Positions == (0 - 1)..(MaxReminders + 1)

VARIABLES reminders, op, args, outcome, ret

vars == <<reminders, op, args, outcome, ret>>

----------------------------------------------------------------------------
(* JavaScript values and built-ins used by the source                      *)

\* The value of an out-of-range array read, arr[i].
Undefined == [undefined |-> TRUE]

\* arr[i] on a JavaScript array, i a 0-based integer offset.
ArrayGet(arr, i) == IF i >= 0 /\ i < Len(arr) THEN arr[i + 1] ELSE Undefined

\* String.prototype.toLowerCase on the strings of the model.
ToLowerCase(s) ==
    CASE s = "Work" -> "work"
      [] s = "WORK" -> "work"
      [] OTHER -> s

\* Property names every object literal {} inherits from Object.prototype;
\* `key in obj` is true for them although obj has no such own property.
ObjectPrototypeKeys ==
    {"constructor", "toString", "toLocaleString", "valueOf", "hasOwnProperty",
     "isPrototypeOf", "propertyIsEnumerable", "__proto__"}

\* `key in groupings` for a groupings object created by the literal {}.
KeyIn(key, groupings) ==
    key \in DOMAIN groupings \/ key \in ObjectPrototypeKeys

\* The object literal {} seen as a map of its own properties.
EmptyObject == [k \in {} |-> <<>>]

----------------------------------------------------------------------------
(* Reminder.ts                                                             *)

\* new Reminder(description, tag); id stands for the object's identity.
Reminder_new(id, description, tag) ==
    [id |-> id, description |-> description, tag |-> tag, isCompleted |-> FALSE]

\* A setter that stores the value before validating it.
Reminder_setDescription_AssignFirst(self, description) ==
    IF description = ""
    THEN [status |-> "throw", self |-> [self EXCEPT !.description = description]]
    ELSE [status |-> "return", self |-> [self EXCEPT !.description = description]]

\* set description(description)
Reminder_setDescription(self, description) ==
    IF description = ""
    THEN [status |-> "throw", self |-> self]
    ELSE [status |-> "return", self |-> [self EXCEPT !.description = description]]

\* set tag(tag)
Reminder_setTag(self, tag) ==
    IF tag = ""
    THEN [status |-> "throw", self |-> self]
    ELSE [status |-> "return", self |-> [self EXCEPT !.tag = tag]]

\* A toggle that can set the flag but never clears it.
Reminder_toggleCompletion_SetOnly(self) ==
    [self EXCEPT !.isCompleted = TRUE]

\* toggleCompletion()
Reminder_toggleCompletion(self) ==
    IF ~self.isCompleted
    THEN [self EXCEPT !.isCompleted = TRUE]
    ELSE [self EXCEPT !.isCompleted = FALSE]

----------------------------------------------------------------------------
(* RemindersHandler.ts                                                     *)

\* size()
size(rs) == Len(rs)

\* An add that puts the new reminder in front.
addReminder_Unshift(rs, description, tag) ==
    <<Reminder_new(Len(rs) + 1, description, tag)>> \o rs

\* addReminder(description, tag): the collection after the push.
addReminder(rs, description, tag) ==
    Append(rs, Reminder_new(Len(rs) + 1, description, tag))

\* isIndexValid(index)
isIndexValid(rs, index) ==
    IF size(rs) = 0 THEN FALSE
    ELSE IF index < 0 \/ index + 1 > size(rs) THEN FALSE
    ELSE TRUE

\* getReminder(index)
getReminder(rs, index) ==
    IF ~isIndexValid(rs, index)
    THEN [status |-> "throw", value |-> Undefined]
    ELSE [status |-> "return", value |-> ArrayGet(rs, index - 1)]

\* modifyReminder(index, description): a property write on undefined throws
\* a TypeError before the setter is reached.
modifyReminder(rs, index, description) ==
    LET target == ArrayGet(rs, index - 1) IN
    IF target = Undefined
    THEN [status |-> "throw", self |-> rs]
    ELSE LET r == Reminder_setDescription(target, description) IN
         [status |-> r.status, self |-> [rs EXCEPT ![index] = r.self]]

\* toggleCompletion(index): a method call on undefined throws a TypeError.
toggleCompletion(rs, index) ==
    LET target == ArrayGet(rs, index - 1) IN
    IF target = Undefined
    THEN [status |-> "throw", self |-> rs]
    ELSE [status |-> "return",
          self |-> [rs EXCEPT ![index] = Reminder_toggleCompletion(target)]]

\* A tag comparison that forgets to fold case.
searchTags_CaseSensitive(rs, keyword) ==
    SelectSeq(rs, LAMBDA reminder : reminder.tag = keyword)

\* searchTags(keyword)
searchTags(rs, keyword) ==
    SelectSeq(rs, LAMBDA reminder : ToLowerCase(reminder.tag) = ToLowerCase(keyword))

\* The haystack handed to FuzzySearch: the descriptions, in collection order.
reminderDesc(rs) == [i \in 1..Len(rs) |-> rs[i].description]

\* searchDescriptions(keyword), result being what haystack.search(keyword)
\* returned: some of the haystack's strings.
searchDescriptions(rs, result) ==
    SelectSeq(rs, LAMBDA reminder : reminder.description \in result)

\* search(keyword)
search(rs, keyword, result) ==
    LET tagResults == searchTags(rs, keyword) IN
    IF Len(tagResults) = 0 THEN searchDescriptions(rs, result) ELSE tagResults

\* The forEach body of groupByTag applied to reminders i..Len(rs), g being
\* the groupings built so far.
RECURSIVE groupFrom(_, _, _)
groupFrom(rs, i, g) ==
    IF i > Len(rs) THEN [status |-> "return", value |-> g]
    ELSE LET reminder == rs[i] IN
         IF KeyIn(reminder.tag, g)
         THEN IF reminder.tag \in DOMAIN g
              THEN groupFrom(rs, i + 1,
                             [g EXCEPT ![reminder.tag] = Append(@, reminder)])
              ELSE [status |-> "throw", value |-> g]
         ELSE groupFrom(rs, i + 1, (reminder.tag :> <<reminder>>) @@ g)

\* groupByTag()
groupByTag(rs) == groupFrom(rs, 1, EmptyObject)

----------------------------------------------------------------------------
(* The state machine: one action per call a client can make                *)

NoArgs == [index |-> 0, description |-> "", tag |-> "", keyword |-> "", result |-> {}]

\* new RemindersHandler()
Init ==
    /\ reminders = <<>>
    /\ op = "constructor"
    /\ args = NoArgs
    /\ outcome = "return"
    /\ ret = Undefined

CallAddReminder ==
    \E description \in Descriptions, tag \in Tags :
        /\ Len(reminders) < MaxReminders
        /\ reminders' = addReminder(reminders, description, tag)
        /\ op' = "addReminder"
        /\ args' = [NoArgs EXCEPT !.description = description, !.tag = tag]
        /\ outcome' = "return"
        /\ ret' = Undefined

CallGetReminder ==
    \E index \in Positions :
        LET r == getReminder(reminders, index) IN
        /\ op' = "getReminder"
        /\ args' = [NoArgs EXCEPT !.index = index]
        /\ outcome' = r.status
        /\ ret' = r.value
        /\ UNCHANGED reminders

CallIsIndexValid ==
    \E index \in Positions :
        /\ op' = "isIndexValid"
        /\ args' = [NoArgs EXCEPT !.index = index]
        /\ outcome' = "return"
        /\ ret' = isIndexValid(reminders, index)
        /\ UNCHANGED reminders

CallModifyReminder ==
    \E index \in Positions, description \in Descriptions :
        LET r == modifyReminder(reminders, index, description) IN
        /\ reminders' = r.self
        /\ op' = "modifyReminder"
        /\ args' = [NoArgs EXCEPT !.index = index, !.description = description]
        /\ outcome' = r.status
        /\ ret' = Undefined

CallToggleCompletion ==
    \E index \in Positions :
        LET r == toggleCompletion(reminders, index) IN
        /\ reminders' = r.self
        /\ op' = "toggleCompletion"
        /\ args' = [NoArgs EXCEPT !.index = index]
        /\ outcome' = r.status
        /\ ret' = Undefined

\* search(keyword); the fuzzy matcher is consulted only in the fallback
\* stage and may return any of the strings it was given.
CallSearch ==
    \E keyword \in Keywords :
        \E result \in IF Len(searchTags(reminders, keyword)) = 0
                      THEN SUBSET {reminderDesc(reminders)[i] : i \in 1..Len(reminders)}
                      ELSE {{}} :
            /\ op' = "search"
            /\ args' = [NoArgs EXCEPT !.keyword = keyword, !.result = result]
            /\ outcome' = "return"
            /\ ret' = search(reminders, keyword, result)
            /\ UNCHANGED reminders

CallGroupByTag ==
    LET r == groupByTag(reminders) IN
    /\ op' = "groupByTag"
    /\ args' = NoArgs
    /\ outcome' = r.status
    /\ ret' = IF r.status = "return" THEN r.value ELSE EmptyObject
    /\ UNCHANGED reminders

\* reminder.description = description on a reminder of the collection, the
\* client holding the reference from the reminders getter or a query.
CallSetDescription ==
    \E index \in 1..Len(reminders), description \in Descriptions :
        LET r == Reminder_setDescription(reminders[index], description) IN
        /\ reminders' = [reminders EXCEPT ![index] = r.self]
        /\ op' = "setDescription"
        /\ args' = [NoArgs EXCEPT !.index = index, !.description = description]
        /\ outcome' = r.status
        /\ ret' = Undefined

\* reminder.tag = tag on a reminder of the collection.
CallSetTag ==
    \E index \in 1..Len(reminders), tag \in SetterTags :
        LET r == Reminder_setTag(reminders[index], tag) IN
        /\ reminders' = [reminders EXCEPT ![index] = r.self]
        /\ op' = "setTag"
        /\ args' = [NoArgs EXCEPT !.index = index, !.tag = tag]
        /\ outcome' = r.status
        /\ ret' = Undefined

Next ==
    \/ CallAddReminder
    \/ CallGetReminder
    \/ CallIsIndexValid
    \/ CallModifyReminder
    \/ CallToggleCompletion
    \/ CallSearch
    \/ CallGroupByTag
    \/ CallSetDescription
    \/ CallSetTag

Spec == Init /\ [][Next]_vars

----------------------------------------------------------------------------
(* Properties                                                              *)

\* The elements of s at the positions in I, in the order of s.
RECURSIVE PickAt(_, _, _)
PickAt(s, I, i) ==
    IF i > Len(s) THEN <<>>
    ELSE (IF i \in I THEN <<s[i]>> ELSE <<>>) \o PickAt(s, I, i + 1)

TagMatches(keyword) ==
    {i \in 1..Len(reminders) : ToLowerCase(reminders[i].tag) = ToLowerCase(keyword)}

DescriptionMatches(result) ==
    {i \in 1..Len(reminders) : reminders[i].description \in result}

InRange(index) == index >= 1 /\ index <= Len(reminders)

\* C1: search(k) returns the reminders whose tag equals k ignoring case, in
\* collection order, whenever there is one; otherwise the reminders whose
\* description is in the fuzzy matcher's result, in collection order; and an
\* empty sequence on an empty collection.
C1_SearchTwoStage ==
    op = "search" =>
        /\ outcome = "return"
        /\ TagMatches(args.keyword) # {} =>
               ret = PickAt(reminders, TagMatches(args.keyword), 1)
        /\ TagMatches(args.keyword) = {} =>
               ret = PickAt(reminders, DescriptionMatches(args.result), 1)
        /\ Len(reminders) = 0 => ret = <<>>

\* A search answered by the tag stage for a keyword that differs from the
\* stored tag in case only, on a collection holding a non-matching reminder.
C1_Witness ==
    /\ op = "search"
    /\ Len(ret) >= 1
    /\ Len(ret) < Len(reminders)
    /\ \E i \in TagMatches(args.keyword) : reminders[i].tag # args.keyword

\* C2: isIndexValid(p) is true iff the collection is non-empty and
\* 1 <= p <= size().
C2_IsIndexValidOneBased ==
    op = "isIndexValid" =>
        (ret = TRUE <=> (Len(reminders) > 0 /\ InRange(args.index)))

\* C3: addReminder increases size() by exactly 1 and straight afterwards
\* getReminder(size()) returns the reminder just added.
C3_AddThenGetLast ==
    [][op' = "addReminder" =>
          /\ size(reminders') = size(reminders) + 1
          /\ getReminder(reminders', size(reminders')).status = "return"
          /\ LET got == getReminder(reminders', size(reminders')).value IN
             /\ got # Undefined
             /\ got.description = args'.description
             /\ got.tag = args'.tag
             /\ got.isCompleted = FALSE]_vars

\* C4: getReminder(p) throws when the collection is empty or p is outside
\* [1, size()], otherwise returns the reminder at offset p - 1, and never
\* returns undefined.
C4_GetReminderChecked ==
    op = "getReminder" =>
        IF Len(reminders) = 0 \/ ~InRange(args.index)
        THEN outcome = "throw"
        ELSE outcome = "return" /\ ret # Undefined /\ ret = reminders[args.index]

\* C5: every reminder of the collection has a non-empty description and a
\* non-empty tag.
C5_NeverEmpty ==
    \A i \in 1..Len(reminders) :
        reminders[i].description # "" /\ reminders[i].tag # ""

FailingOps ==
    {"getReminder", "modifyReminder", "toggleCompletion", "setDescription", "setTag"}

\* C6: a call of getReminder, modifyReminder, toggleCompletion or a Reminder
\* setter that throws leaves the whole collection as it was before the call.
C6_AtomicOnFailure ==
    [][(op' \in FailingOps /\ outcome' = "throw") => reminders' = reminders]_vars

\* modifyReminder rejected for its empty description at a position that
\* holds a reminder.
C6_Witness ==
    /\ op = "modifyReminder"
    /\ outcome = "throw"
    /\ InRange(args.index)
    /\ args.description = ""
    /\ reminders[args.index].description # ""

TagsPresent == {reminders[i].tag : i \in 1..Len(reminders)}

\* C7: groupByTag() returns a mapping whose keys are exactly the distinct
\* tags, compared case-sensitively, each group holding the reminders with
\* that tag in insertion order; an empty collection yields an empty mapping.
C7_GroupByTagPartition ==
    op = "groupByTag" =>
        /\ outcome = "return"
        /\ DOMAIN ret = TagsPresent
        /\ \A t \in TagsPresent :
               ret[t] = PickAt(reminders,
                               {i \in 1..Len(reminders) : reminders[i].tag = t}, 1)

CollectionOps ==
    {"addReminder", "getReminder", "isIndexValid", "modifyReminder",
     "toggleCompletion", "search", "groupByTag"}

C9_ToggleInvolution ==
    [][(op' = "toggleCompletion" /\ args'.index \in 1..Len(reminders)) =>
          LET p == args'.index IN
          /\ outcome' = "return"
          /\ reminders' =
                 [reminders EXCEPT ![p].isCompleted = ~reminders[p].isCompleted]
          /\ toggleCompletion(reminders', p).status = "return"
          /\ toggleCompletion(reminders', p).self = reminders]_vars

\* A toggle that has just cleared the flag of a reminder, which an earlier
\* toggle had set.
C9_Witness ==
    /\ op = "toggleCompletion"
    /\ outcome = "return"
    /\ InRange(args.index)
    /\ ~reminders[args.index].isCompleted

\* C10: modifyReminder and toggleCompletion return normally, changing
\* nothing, when the index addresses no reminder.
C10_SilentlyIgnoresBadIndex ==
    [][(op' \in {"modifyReminder", "toggleCompletion"}
           /\ ~(args'.index \in 1..Len(reminders))) =>
          (outcome' = "return" /\ reminders' = reminders)]_vars

====
